---- MODULE Spec2Model ----
(***************************************************************************)
(* A model of PDFExtractor (src/app.py): the extraction-and-aggregation    *)
(* engine of the Select T.T invoice extractor.                             *)
(*                                                                         *)
(* Conventions.                                                            *)
(*   - A Python string is a sequence of one-character strings, so that     *)
(*     strip, replace, `in`, split and the character classes of the        *)
(*     regular expressions are computed and not assumed.                   *)
(*   - Optional[T] is a sequence of length at most one: None is <<>> and a *)
(*     value v is <<v>>.                                                   *)
(*   - A float amount is an exact number of hundredths (an integer): the   *)
(*     amounts of the model carry at most two decimals, so no rounding of  *)
(*     binary floating point is modelled.                                  *)
(*   - A dict is a record; a dict whose key set matters (the summaries of  *)
(*     analyze_rubriques, in insertion order) is a sequence of entries.    *)
(***************************************************************************)
EXTENDS Integers, Sequences, FiniteSets, TLC

\* ------------------------------------------------------------------ bounds
\* Documents in one batch handed to process_files.
MaxDocs == 2
\* Candidate records (text lines) in one document text, for extract_line_items.
MaxLines == 3

\* ------------------------------------------------------------ Optional[T]
None == <<>>
Some(v) == <<v>>
IsNone(o) == o = <<>>
Get(o) == o[1]

\* ------------------------------------------------------------- characters
Digits == {"0", "1", "2", "3", "4", "5", "6", "7", "8", "9"}
UpperLetters == {"A", "B", "C", "D", "E", "F", "G", "H", "I", "J", "K", "L", "M",
                 "N", "O", "P", "Q", "R", "S", "T", "U", "V", "W", "X", "Y", "Z"}
LowerLetters == {"a", "b", "c", "d", "e", "f", "g", "h", "i", "j", "k", "l", "m",
                 "n", "o", "p", "q", "r", "s", "t", "u", "v", "w", "x", "y", "z"}
\* [A-Z] under re.IGNORECASE
Letters == UpperLetters \cup LowerLetters
\* \s, as far as the texts of the model go
Whitespace == {" ", "\n"}

DigitVal(c) ==
  CASE c = "0" -> 0 [] c = "1" -> 1 [] c = "2" -> 2 [] c = "3" -> 3 [] c = "4" -> 4
    [] c = "5" -> 5 [] c = "6" -> 6 [] c = "7" -> 7 [] c = "8" -> 8 [] c = "9" -> 9

\* c in s
HasChar(s, c) == \E k \in 1..Len(s) : s[k] = c

\* sub in s (str.__contains__)
Contains(s, sub) ==
  \E k \in 0..(Len(s) - Len(sub)) :
    \A j \in 1..Len(sub) : s[k + j] = sub[j]

\* s.replace(c, by) for a one-character c; by is a string (possibly empty)
RECURSIVE Replace(_, _, _)
Replace(s, c, by) ==
  IF s = <<>> THEN <<>>
  ELSE (IF Head(s) = c THEN by ELSE <<Head(s)>>) \o Replace(Tail(s), c, by)

\* the characters of s that are in the set keep, in order
RECURSIVE Keep(_, _)
Keep(s, keep) ==
  IF s = <<>> THEN <<>>
  ELSE (IF Head(s) \in keep THEN <<Head(s)>> ELSE <<>>) \o Keep(Tail(s), keep)

\* s.strip()
RECURSIVE LStrip(_)
LStrip(s) == IF s # <<>> /\ Head(s) \in Whitespace THEN LStrip(Tail(s)) ELSE s
RECURSIVE RStrip(_)
RStrip(s) ==
  IF s # <<>> /\ s[Len(s)] \in Whitespace THEN RStrip(SubSeq(s, 1, Len(s) - 1)) ELSE s
Strip(s) == RStrip(LStrip(s))

\* the value of a string of digits, most significant first
RECURSIVE DigitsValue(_)
DigitsValue(s) ==
  IF s = <<>> THEN 0 ELSE 10 * DigitsValue(SubSeq(s, 1, Len(s) - 1)) + DigitVal(s[Len(s)])

\* ------------------------------------------------------- normalize_amount
\* float(s) on a string of digits and periods: a value in hundredths, or
\* None where float raises ValueError (no digit, or more than one period).
ParseFloat(s) ==
  LET dots == {k \in 1..Len(s) : s[k] = "."}
      ndig == Cardinality({k \in 1..Len(s) : s[k] \in Digits})
  IN  IF ndig = 0 \/ Cardinality(dots) > 1 \/ \E k \in 1..Len(s) : s[k] \notin Digits \cup {"."}
        THEN None
      ELSE IF dots = {} THEN Some(100 * DigitsValue(s))
      ELSE LET d == CHOOSE k \in dots : TRUE
               ip == SubSeq(s, 1, d - 1)
               fp == SubSeq(s, d + 1, Len(s))
               f2 == SubSeq(fp \o <<"0", "0">>, 1, 2)
           IN  Some(100 * DigitsValue(ip) + DigitsValue(f2))

\* A variant of normalize_amount for which a comma is always the decimal
\* point, also when the string holds a period.
normalize_amount_CommaDecimal(amount_str) ==
  IF amount_str = <<>> THEN None
  ELSE LET s1 == Strip(amount_str)
           s2 == IF HasChar(s1, ",") THEN Replace(s1, ",", <<".">>) ELSE s1
           s3 == Keep(s2, Digits \cup {"."})
       IN  ParseFloat(s3)

normalize_amount(amount_str) ==
  IF amount_str = <<>> THEN None
  ELSE LET s1 == Strip(amount_str)
           s2 == IF HasChar(s1, ",") /\ HasChar(s1, ".") THEN Replace(s1, ",", <<>>)
                 ELSE IF HasChar(s1, ",") THEN Replace(s1, ",", <<".">>)
                 ELSE s1
           s3 == Keep(s2, Digits \cup {"."})
       IN  ParseFloat(s3)

\* ------------------------------------------------------ parse_description
Expense == <<"E", "x", "p", "e", "n", "s", "e">>
Timesheet == <<"T", "i", "m", "e", "s", "h", "e", "e", "t">>
Autre == <<"A", "u", "t", "r", "e">>
\* 'Non déterminé' (written without its accents)
NonDetermine == <<"N", "o", "n", " ", "d", "e", "t", "e", "r", "m", "i", "n", "e">>

\* the index of the first c in s, 0 when there is none
IndexOf(s, c) ==
  IF HasChar(s, c) THEN CHOOSE k \in 1..Len(s) : s[k] = c /\ \A j \in 1..(k - 1) : s[j] # c
  ELSE 0

\* len(s.split(c))
PartsCount(s, c) == Cardinality({k \in 1..Len(s) : s[k] = c}) + 1
\* s.split(c)[0], and what follows the first c
FirstPart(s, c) == IF IndexOf(s, c) = 0 THEN s ELSE SubSeq(s, 1, IndexOf(s, c) - 1)
AfterFirst(s, c) == IF IndexOf(s, c) = 0 THEN <<>> ELSE SubSeq(s, IndexOf(s, c) + 1, Len(s))

\* (batch_id, assignment_id, type_prestation); '_'.join(parts[2:]) is what
\* follows the second '_'
parse_description(description) ==
  IF PartsCount(description, "_") >= 3
    THEN LET rest == AfterFirst(description, "_")
             type_part == AfterFirst(rest, "_")
         IN  [batch_id |-> Some(FirstPart(description, "_")),
              assignment_id |-> Some(FirstPart(rest, "_")),
              type_prestation |->
                IF Contains(type_part, Expense) THEN Expense
                ELSE IF Contains(type_part, Timesheet) THEN Timesheet
                ELSE Autre]
  ELSE [batch_id |-> None, assignment_id |-> None, type_prestation |-> NonDetermine]

\* --------------------------------------------------- extract_rubrique_code
\* re.search(r'([A-Z]{2}\d{3})', s, re.IGNORECASE): the leftmost run of two
\* letters and three digits, or None.
IsCodeAt(s, k) ==
  /\ k + 4 <= Len(s)
  /\ s[k] \in Letters /\ s[k + 1] \in Letters
  /\ s[k + 2] \in Digits /\ s[k + 3] \in Digits /\ s[k + 4] \in Digits

SearchCode(s) ==
  LET hits == {k \in 1..Len(s) : IsCodeAt(s, k)}
  IN  IF hits = {} THEN None
      ELSE LET k == CHOOSE i \in hits : \A j \in hits : i <= j
           IN  Some(SubSeq(s, k, k + 4))

\* The two label-anchored patterns of rubrique_patterns end in the same
\* capture ([A-Z]{2}\d{3}): wherever one of them matches, the bare first
\* pattern matches too and is tried first, so the loop over the patterns
\* returns the first pattern's capture.
\* A variant of extract_rubrique_code that searches the description only.
extract_rubrique_code_OwnOnly(description, full_text) ==
  SearchCode(description)

extract_rubrique_code(description, full_text) ==
  LET own == SearchCode(description)
  IN  IF ~IsNone(own) THEN own ELSE SearchCode(full_text)

\* ------------------------------------------------------ extract_line_items
\* A document text is a header (free text) followed by candidate records, one
\* per text line: <bid>_<aid>_<tail> <date> <unit> <pu> <qty> <net> <tva> <brut>
\* with bid four digits, aid five digits, and the other fields as the
\* structural patterns delimit them (date \d{4}/\d{2}/\d{2}, unit \w+,
\* qty \d+, amounts [\d,\.]+).
Descr(line) == line.bid \o <<"_">> \o line.aid \o <<"_">> \o line.tail

RenderLine(line) ==
  Descr(line) \o <<" ">> \o line.date \o <<" ">> \o line.unite \o <<" ">> \o line.pu
    \o <<" ">> \o line.qty \o <<" ">> \o line.net \o <<" ">> \o line.tva
    \o <<" ">> \o line.brut \o <<"\n">>

RECURSIVE RenderLines(_)
RenderLines(ls) == IF ls = <<>> THEN <<>> ELSE RenderLine(Head(ls)) \o RenderLines(Tail(ls))

FullText(text) == text.head \o RenderLines(text.lines)

\* Whether line_patterns[p] matches the candidate record. The two patterns
\* differ in the description only:
\*   1: \d{4}_\d{5}_[^0-9]*?  then \s+ and the date: no digit in the tail;
\*   2: \d{4}_\d{5}_[^\s]+    then \s+ and the date: a non-empty tail
\*      without whitespace.
PatternMatches(p, line) ==
  IF p = 1 THEN \A k \in 1..Len(line.tail) : line.tail[k] \notin Digits
  ELSE /\ line.tail # <<>>
       /\ \A k \in 1..Len(line.tail) : line.tail[k] \notin Whitespace

\* The longest string of digits int() converts: beyond it int() raises
\* ValueError (CPython's default limit, sys.int_info.default_max_str_digits).
IntMaxStrDigits == 4300

\* int(s): None where it raises ValueError
ParseInt(s) ==
  IF s = <<>> \/ Len(s) > IntMaxStrDigits \/ \E k \in 1..Len(s) : s[k] \notin Digits
    THEN None
  ELSE Some(DigitsValue(s))

\* A variant of LineData that reads the net amount from the VAT column and the
\* VAT amount from the net column.
LineData_NetVatSwapped(line, full_text) ==
  LET description == Strip(Descr(line))
      pd == parse_description(description)
  IN  IF IsNone(ParseInt(line.qty)) THEN None
      ELSE Some([description |-> description,
                 batch_id |-> pd.batch_id,
                 assignment_id |-> pd.assignment_id,
                 type_prestation |-> pd.type_prestation,
                 code_rubrique |-> extract_rubrique_code(description, full_text),
                 date_periode |-> line.date,
                 unite |-> line.unite,
                 prix_unitaire |-> normalize_amount(line.pu),
                 quantite |-> Get(ParseInt(line.qty)),
                 montant_net |-> normalize_amount(line.tva),
                 montant_tva |-> normalize_amount(line.net),
                 montant_brut |-> normalize_amount(line.brut)])

\* The body of the try block for one match: the line_data appended, or None
\* when the except branch (ValueError) skips the record.
LineData(line, full_text) ==
  LET description == Strip(Descr(line))
      pd == parse_description(description)
  IN  IF IsNone(ParseInt(line.qty)) THEN None
      ELSE Some([description |-> description,
                 batch_id |-> pd.batch_id,
                 assignment_id |-> pd.assignment_id,
                 type_prestation |-> pd.type_prestation,
                 code_rubrique |-> extract_rubrique_code(description, full_text),
                 date_periode |-> line.date,
                 unite |-> line.unite,
                 prix_unitaire |-> normalize_amount(line.pu),
                 quantite |-> Get(ParseInt(line.qty)),
                 montant_net |-> normalize_amount(line.net),
                 montant_tva |-> normalize_amount(line.tva),
                 montant_brut |-> normalize_amount(line.brut)])

\* The inner loop for one pattern: the records appended for the matches of
\* line_patterns[p] among the candidate records ls, in the order re.finditer
\* yields them (left to right). Each entry keeps, beside the line_data, the
\* pattern and the place of its match (the index of the text line it starts
\* on, first being the index of ls[1]).
RECURSIVE MatchesOf(_, _, _, _)
MatchesOf(p, ls, first, full_text) ==
  IF ls = <<>> THEN <<>>
  ELSE LET ld == IF PatternMatches(p, Head(ls)) THEN LineData(Head(ls), full_text) ELSE None
           here == IF IsNone(ld) THEN <<>>
                   ELSE <<[data |-> Get(ld), pattern |-> p, start |-> first]>>
       IN  here \o MatchesOf(p, Tail(ls), first + 1, full_text)

\* A variant of LineMatches that keeps, of the matches of the second pattern,
\* only those of records the first pattern did not match.
LineMatches_NoDuplicate(text) ==
  LET full_text == FullText(text)
      second == MatchesOf(2, text.lines, 1, full_text)
      fresh == {k \in 1..Len(second) : ~PatternMatches(1, text.lines[second[k].start])}
      RECURSIVE Keep2(_)
      Keep2(k) == IF k > Len(second) THEN <<>>
                  ELSE (IF k \in fresh THEN <<second[k]>> ELSE <<>>) \o Keep2(k + 1)
  IN  MatchesOf(1, text.lines, 1, full_text) \o Keep2(1)

\* for pattern in line_patterns: for match in re.finditer(...): lines.append(...)
LineMatches(text) ==
  LET full_text == FullText(text)
  IN  MatchesOf(1, text.lines, 1, full_text) \o MatchesOf(2, text.lines, 1, full_text)

\* the list extract_line_items returns
extract_line_items(text) ==
  LET ms == LineMatches(text)
  IN  [k \in 1..Len(ms) |-> ms[k].data]

\* ------------------------------------------------------- analyze_rubriques
SANS_CODE == <<"S", "A", "N", "S", "_", "C", "O", "D", "E">>
SANS_TYPE == <<"S", "A", "N", "S", "_", "T", "Y", "P", "E">>

\* dict.get(key, default): the default is used only when the key is absent
DictGet(d, key, default) == IF key \in DOMAIN d THEN d[key] ELSE default

\* str() of an optional string inside an f-string: None prints as "None"
FormatOpt(o) == IF IsNone(o) THEN <<"N", "o", "n", "e">> ELSE Get(o)

\* x or 0
OrZero(o) == IF IsNone(o) THEN 0 ELSE Get(o)

\* A variant of rubrique_key that leaves the service type out of the key.
rubrique_key_CodeOnly(line) ==
  FormatOpt(DictGet(line, "code_rubrique", Some(SANS_CODE)))

\* f"{line.get('code_rubrique', 'SANS_CODE')}_{line.get('type_prestation', 'SANS_TYPE')}"
rubrique_key(line) ==
  FormatOpt(DictGet(line, "code_rubrique", Some(SANS_CODE)))
    \o <<"_">> \o DictGet(line, "type_prestation", SANS_TYPE)

\* the record created when rubrique_key is not yet in rubriques_data
NewRubrique(line) ==
  [code_rubrique |-> DictGet(line, "code_rubrique", Some(NonDetermine)),
   type_prestation |-> DictGet(line, "type_prestation", NonDetermine),
   batch_id |-> DictGet(line, "batch_id", None),
   assignment_id |-> DictGet(line, "assignment_id", None),
   nb_lignes |-> 0,
   total_quantite |-> 0,
   total_net |-> 0,
   total_tva |-> 0,
   total_brut |-> 0,
   unites |-> {},
   periodes |-> {}]

\* A variant of Accumulate whose VAT total adds the net amount of the line.
Accumulate_TvaFromNet(rubrique, line) ==
  [rubrique EXCEPT
     !.nb_lignes = @ + 1,
     !.total_quantite = @ + DictGet(line, "quantite", 0),
     !.total_net = @ + OrZero(DictGet(line, "montant_net", Some(0))),
     !.total_tva = @ + OrZero(DictGet(line, "montant_net", Some(0))),
     !.total_brut = @ + OrZero(DictGet(line, "montant_brut", Some(0))),
     !.unites = IF DictGet(line, "unite", <<>>) # <<>> THEN @ \cup {line.unite} ELSE @,
     !.periodes = IF DictGet(line, "date_periode", <<>>) # <<>>
                    THEN @ \cup {line.date_periode} ELSE @]

\* the accumulation of one line into its rubrique
Accumulate(rubrique, line) ==
  [rubrique EXCEPT
     !.nb_lignes = @ + 1,
     !.total_quantite = @ + DictGet(line, "quantite", 0),
     !.total_net = @ + OrZero(DictGet(line, "montant_net", Some(0))),
     !.total_tva = @ + OrZero(DictGet(line, "montant_tva", Some(0))),
     !.total_brut = @ + OrZero(DictGet(line, "montant_brut", Some(0))),
     !.unites = IF DictGet(line, "unite", <<>>) # <<>> THEN @ \cup {line.unite} ELSE @,
     !.periodes = IF DictGet(line, "date_periode", <<>>) # <<>>
                    THEN @ \cup {line.date_periode} ELSE @]

\* rubriques_data is a dict, which keeps its keys in insertion order: a
\* sequence of entries [key, val]. One iteration of the loop over the lines.
KeyIndex(rubriques_data, key) ==
  IF \E k \in 1..Len(rubriques_data) : rubriques_data[k].key = key
    THEN CHOOSE k \in 1..Len(rubriques_data) : rubriques_data[k].key = key
  ELSE 0

\* A variant of FoldLine that puts a new rubrique first instead of last.
FoldLine_NewFirst(rubriques_data, line) ==
  LET key == rubrique_key(line)
      with == IF KeyIndex(rubriques_data, key) = 0
                THEN <<[key |-> key, val |-> NewRubrique(line)]>> \o rubriques_data
              ELSE rubriques_data
      k == KeyIndex(with, key)
  IN  [with EXCEPT ![k].val = Accumulate(@, line)]

FoldLine(rubriques_data, line) ==
  LET key == rubrique_key(line)
      with == IF KeyIndex(rubriques_data, key) = 0
                THEN Append(rubriques_data, [key |-> key, val |-> NewRubrique(line)])
              ELSE rubriques_data
      k == KeyIndex(with, key)
  IN  [with EXCEPT ![k].val = Accumulate(@, line)]

RECURSIVE FoldLines(_, _)
FoldLines(rubriques_data, lines) ==
  IF lines = <<>> THEN rubriques_data
  ELSE FoldLines(FoldLine(rubriques_data, Head(lines)), Tail(lines))

\* The unit labels and the period dates of the model, in sorted() order.
UnitOrder == << <<"D", "A", "Y">>, <<"H", "R", "S">> >>
DateOrder == << <<"2", "0", "2", "4", "/", "0", "1", "/", "1", "5">>,
                <<"2", "0", "2", "4", "/", "0", "2", "/", "1", "5">> >>

\* ', '.join(sorted(S)) for S a set of the strings of order ('' when S is empty)
RECURSIVE JoinSorted(_, _)
JoinSorted(S, order) ==
  IF order = <<>> THEN <<>>
  ELSE LET rest == JoinSorted(S, Tail(order))
       IN  IF Head(order) \notin S THEN rest
           ELSE IF rest = <<>> THEN Head(order)
           ELSE Head(order) \o <<",", " ">> \o rest

\* the second loop: the sets rendered as strings
RenderRubrique(rubrique) ==
  [rubrique EXCEPT !.unites = JoinSorted(@, UnitOrder),
                   !.periodes = JoinSorted(@, DateOrder)]

\* list(rubriques_data.values())
analyze_rubriques(lines) ==
  LET rubriques_data == FoldLines(<<>>, lines)
  IN  [k \in 1..Len(rubriques_data) |-> RenderRubrique(rubriques_data[k].val)]

\* ---------------------------------------------------------- Field Extractor
\* The header patterns are matched on the characters of the text. re.search
\* returns the leftmost match; under re.IGNORECASE a literal matches in either
\* letter case; '.' matches any character but the newline.
\* re.search(r'(\d{4}/\d{2}/\d{2})', s): the leftmost date shape
IsDateAt(s, k) ==
  /\ k + 9 <= Len(s)
  /\ \A j \in {0, 1, 2, 3, 5, 6, 8, 9} : s[k + j] \in Digits
  /\ s[k + 4] = "/" /\ s[k + 7] = "/"

SearchDate(s) ==
  LET hits == {k \in 1..Len(s) : IsDateAt(s, k)}
  IN  IF hits = {} THEN None
      ELSE LET k == CHOOSE i \in hits : \A j \in hits : i <= j
           IN  Some(SubSeq(s, k, k + 9))

\* re.search of the shape \d{4}_\d{5}_: the index of its leftmost occurrence, 0
\* when there is none
IsIdsAt(s, k) ==
  /\ k + 10 <= Len(s)
  /\ \A j \in {0, 1, 2, 3, 5, 6, 7, 8, 9} : s[k + j] \in Digits
  /\ s[k + 4] = "_" /\ s[k + 10] = "_"

SearchIds(s) ==
  LET hits == {k \in 1..Len(s) : IsIdsAt(s, k)}
  IN  IF hits = {} THEN 0 ELSE CHOOSE i \in hits : \A j \in hits : i <= j

UpperSeq == <<"A", "B", "C", "D", "E", "F", "G", "H", "I", "J", "K", "L", "M",
              "N", "O", "P", "Q", "R", "S", "T", "U", "V", "W", "X", "Y", "Z">>
LowerSeq == <<"a", "b", "c", "d", "e", "f", "g", "h", "i", "j", "k", "l", "m",
              "n", "o", "p", "q", "r", "s", "t", "u", "v", "w", "x", "y", "z">>
\* str.lower() of one character
LowerMap == [c \in UpperLetters |-> LowerSeq[CHOOSE i \in 1..26 : UpperSeq[i] = c]]
ToLower(c) == IF c \in UpperLetters THEN LowerMap[c] ELSE c

\* [\d,\.]
AmountClass == Digits \cup {",", "."}
\* what [^0-9A-Z] excludes under re.IGNORECASE
AlnumClass == Digits \cup Letters

MinOf(S) == CHOOSE i \in S : \A j \in S : i <= j

\* the literal label matches at position k, in either letter case
LabelAt(s, k, label) ==
  /\ k + Len(label) - 1 <= Len(s)
  /\ \A j \in 1..Len(label) : ToLower(s[k + j - 1]) = ToLower(label[j])

LabelHits(s, label) == {k \in 1..Len(s) : LabelAt(s, k, label)}


\* the last position of the longest run of characters of class that starts at
\* c (s[c] is in class): what a greedy class+ takes
RECURSIVE RunEnd(_, _, _)
RunEnd(s, c, class) ==
  IF c = Len(s) \/ s[c + 1] \notin class THEN c ELSE RunEnd(s, c + 1, class)

\* the first position from e on whose character is in class, 0 when none
FirstIn(s, e, class) ==
  LET hits == {p \in e..Len(s) : s[p] \in class}
  IN  IF hits = {} THEN 0 ELSE MinOf(hits)

\* the last position a '.*?' that starts at position a can stop before: that
\* of the next newline, or of the end of the text
LineEnd(s, a) ==
  LET nl == FirstIn(s, a, {"\n"})
  IN  IF nl = 0 THEN Len(s) ELSE nl

\* Where a capture group that starts at position c ends, 0 when the group
\* does not match there.
\* (\d{10})
TenDigitsEnd(s, c) ==
  IF c + 9 <= Len(s) /\ \A j \in 0..9 : s[c + j] \in Digits THEN c + 9 ELSE 0
\* (\d{4}/\d{2}/\d{2})
DateEnd(s, c) == IF IsDateAt(s, c) THEN c + 9 ELSE 0
\* ([\d,\.]+)
AmountEnd(s, c) == IF s[c] \in AmountClass THEN RunEnd(s, c, AmountClass) ELSE 0
\* ([0-9]+S[0-9]+)
InvoiceIdEnd(s, c) ==
  IF s[c] \notin Digits THEN 0
  ELSE LET p == RunEnd(s, c, Digits)
       IN  IF p + 2 <= Len(s) /\ s[p + 1] \in {"S", "s"} /\ s[p + 2] \in Digits
             THEN RunEnd(s, p + 2, Digits)
           ELSE 0
\* (\d{4}S\d{4})
FixedIdEnd(s, c) ==
  IF /\ c + 8 <= Len(s)
     /\ \A j \in {0, 1, 2, 3, 5, 6, 7, 8} : s[c + j] \in Digits
     /\ s[c + 4] \in {"S", "s"}
    THEN c + 8
  ELSE 0
\* (\d{4}S\d{3,4})
ShortIdEnd(s, c) ==
  IF /\ c + 7 <= Len(s)
     /\ \A j \in {0, 1, 2, 3, 5, 6, 7} : s[c + j] \in Digits
     /\ s[c + 4] \in {"S", "s"}
    THEN (IF c + 8 <= Len(s) /\ s[c + 8] \in Digits THEN c + 8 ELSE c + 7)
  ELSE 0

\* the capture groups of the header patterns, by name
GroupEnd(group, s, c) ==
  CASE group = "ten_digits" -> TenDigitsEnd(s, c)
    [] group = "date" -> DateEnd(s, c)
    [] group = "amount" -> AmountEnd(s, c)
    [] group = "invoice_id" -> InvoiceIdEnd(s, c)
    [] group = "fixed_id" -> FixedIdEnd(s, c)
    [] group = "short_id" -> ShortIdEnd(s, c)

\* re.search of a pattern that is one capture group: the capture of the
\* leftmost match, None when there is no match
BareSearch(s, group) ==
  LET hits == {c \in 1..Len(s) : GroupEnd(group, s, c) # 0}
  IN  IF hits = {} THEN None
      ELSE Some(SubSeq(s, MinOf(hits), GroupEnd(group, s, MinOf(hits))))

\* re.search of 'label[^class]*(group)', the group starting with a character
\* of class: after the label the gap runs to the first character of class, and
\* the group has to match there.
GapStart(s, k, label, class) == FirstIn(s, k + Len(label), class)

GapSearch(s, label, class, group) ==
  LET hits == {k \in LabelHits(s, label) :
                 /\ GapStart(s, k, label, class) # 0
                 /\ GroupEnd(group, s, GapStart(s, k, label, class)) # 0}
  IN  IF hits = {} THEN None
      ELSE LET c == GapStart(s, MinOf(hits), label, class)
           IN  Some(SubSeq(s, c, GroupEnd(group, s, c)))

\* re.search of 'label.*?(group)': after the label, the first position of the
\* same line where the group matches.
LazyStarts(s, k, label, group) ==
  {c \in (k + Len(label))..LineEnd(s, k + Len(label)) : GroupEnd(group, s, c) # 0}

LazySearch(s, label, group) ==
  LET hits == {k \in LabelHits(s, label) : LazyStarts(s, k, label, group) # {}}
  IN  IF hits = {} THEN None
      ELSE LET c == MinOf(LazyStarts(s, MinOf(hits), label, group))
           IN  Some(SubSeq(s, c, GroupEnd(group, s, c)))

\* [\d,\.]+\s+[\d,\.]+\s+[\d,\.]+ at position c: the first and last position
\* of each of the three amounts, <<>> when it does not match there
TripleAt(s, c) ==
  IF s[c] \notin AmountClass THEN <<>>
  ELSE LET p1 == RunEnd(s, c, AmountClass)
       IN  IF p1 = Len(s) \/ s[p1 + 1] \notin Whitespace THEN <<>>
           ELSE LET w1 == RunEnd(s, p1 + 1, Whitespace)
                IN  IF w1 = Len(s) \/ s[w1 + 1] \notin AmountClass THEN <<>>
                    ELSE LET p2 == RunEnd(s, w1 + 1, AmountClass)
                         IN  IF p2 = Len(s) \/ s[p2 + 1] \notin Whitespace THEN <<>>
                             ELSE LET w2 == RunEnd(s, p2 + 1, Whitespace)
                                  IN  IF w2 = Len(s) \/ s[w2 + 1] \notin AmountClass THEN <<>>
                                      ELSE << <<c, p1>>, <<w1 + 1, p2>>,
                                              <<w2 + 1, RunEnd(s, w2 + 1, AmountClass)>> >>

InvoiceTotal == <<"I", "n", "v", "o", "i", "c", "e", " ", "T", "o", "t", "a", "l">>
EUR == <<"E", "U", "R">>

\* 'Invoice Total.*?EUR.*?' from the label at k: the positions the text after
\* it can start at: on the line of the label, after an EUR (what can follow a
\* later EUR can follow the first one).
AfterEUR(s, k) ==
  LET e == k + Len(InvoiceTotal)
      us == {u \in e..LineEnd(s, e) : LabelAt(s, u, EUR)}
  IN  IF us = {} THEN {} ELSE (MinOf(us) + Len(EUR))..LineEnd(s, e)

\* re.search of 'Invoice Total.*?EUR.*?[\d,\.]+\s+[\d,\.]+\s+[\d,\.]+' with
\* the capture group on the g-th amount
TripleStarts(s, k) == {c \in AfterEUR(s, k) : TripleAt(s, c) # <<>>}

TotalSearch(s, g) ==
  LET hits == {k \in LabelHits(s, InvoiceTotal) : TripleStarts(s, k) # {}}
  IN  IF hits = {} THEN None
      ELSE LET t == TripleAt(s, MinOf(TripleStarts(s, MinOf(hits))))
           IN  Some(SubSeq(s, t[g][1], t[g][2]))

\* re.search of 'Invoice Total.*?EUR.*?([\d,\.]+)'
SingleStarts(s, k) == {c \in AfterEUR(s, k) : AmountEnd(s, c) # 0}

TotalSingleSearch(s) ==
  LET hits == {k \in LabelHits(s, InvoiceTotal) : SingleStarts(s, k) # {}}
  IN  IF hits = {} THEN None
      ELSE LET c == MinOf(SingleStarts(s, MinOf(hits)))
           IN  Some(SubSeq(s, c, AmountEnd(s, c)))

\* What extract_with_regex returns for the capture of a re.search (None: no
\* match): match.group(group).strip() if match and match.group(group) else None
extract_with_regex(capture) ==
  IF ~IsNone(capture) /\ Get(capture) # <<>> THEN Some(Strip(Get(capture))) ELSE None

\* for pattern in patterns: result = extract_with_regex(...); if result: return result
\* over the captures of the patterns, in the order of the list
RECURSIVE FirstResult(_)
FirstResult(captures) ==
  IF captures = <<>> THEN None
  ELSE LET result == extract_with_regex(Head(captures))
       IN  IF ~IsNone(result) /\ Get(result) # <<>> THEN result
           ELSE FirstResult(Tail(captures))

\* for pattern in patterns: match = re.search(...); if match: return
\* self.normalize_amount(match.group(1))
RECURSIVE FirstAmount(_)
FirstAmount(captures) ==
  IF captures = <<>> THEN None
  ELSE IF ~IsNone(Head(captures)) THEN normalize_amount(Get(Head(captures)))
  ELSE FirstAmount(Tail(captures))

\* The labels of the patterns (Modalités written without its accent).
InvoiceIdNumber == <<"I", "n", "v", "o", "i", "c", "e", " ", "I", "D", "/", "N", "u", "m", "b", "e", "r">>
Invoice == <<"I", "n", "v", "o", "i", "c", "e">>
InvoiceDate == <<"I", "n", "v", "o", "i", "c", "e", " ", "D", "a", "t", "e">>
PurchaseOrder == <<"P", "u", "r", "c", "h", "a", "s", "e", " ", "O", "r", "d", "e", "r">>
BonDeCommande == <<"B", "o", "n", " ", "d", "e", " ", "c", "o", "m", "m", "a", "n", "d", "e">>
PaymentTerms == <<"P", "a", "y", "m", "e", "n", "t", " ", "T", "e", "r", "m", "s">>
ModalitesDePaiement == <<"M", "o", "d", "a", "l", "i", "t", "e", "s", " ", "d", "e", " ", "P", "a", "i", "e", "m", "e", "n", "t">>
NetAmount == <<"N", "e", "t", " ", "A", "m", "o", "u", "n", "t">>
MontantNet == <<"M", "o", "n", "t", "a", "n", "t", " ", "N", "e", "t">>
VATAmount == <<"V", "A", "T", " ", "A", "m", "o", "u", "n", "t">>
MontantTVA == <<"M", "o", "n", "t", "a", "n", "t", " ", "T", "V", "A">>
GrossAmount == <<"G", "r", "o", "s", "s", " ", "A", "m", "o", "u", "n", "t">>
MontantBrut == <<"M", "o", "n", "t", "a", "n", "t", " ", "b", "r", "u", "t">>

\* The capture of each pattern of a field's list on the text, in the order of
\* the list (None where re.search finds no match).
InvoiceNumberCaptures(s) ==
  <<GapSearch(s, InvoiceIdNumber, AlnumClass, "invoice_id"),
    BareSearch(s, "fixed_id"),
    LazySearch(s, Invoice, "short_id")>>

InvoiceDateCaptures(s) == <<GapSearch(s, InvoiceDate, Digits, "date"), SearchDate(s)>>

PurchaseOrderCaptures(s) ==
  <<GapSearch(s, PurchaseOrder, Digits, "ten_digits"),
    GapSearch(s, BonDeCommande, Digits, "ten_digits"),
    BareSearch(s, "ten_digits")>>

DueDateCaptures(s) ==
  <<GapSearch(s, PaymentTerms, Digits, "date"),
    GapSearch(s, ModalitesDePaiement, Digits, "date")>>

TotalNetCaptures(s) ==
  <<TotalSearch(s, 1), TotalSingleSearch(s),
    LazySearch(s, NetAmount, "amount"), LazySearch(s, MontantNet, "amount")>>

TotalVatCaptures(s) ==
  <<TotalSearch(s, 2), LazySearch(s, VATAmount, "amount"), LazySearch(s, MontantTVA, "amount")>>

TotalGrossCaptures(s) ==
  <<TotalSearch(s, 3), LazySearch(s, GrossAmount, "amount"), LazySearch(s, MontantBrut, "amount")>>

\* The extractors, on the text as one string.
extract_invoice_number(full_text) == FirstResult(InvoiceNumberCaptures(full_text))

extract_invoice_date(full_text) == FirstResult(InvoiceDateCaptures(full_text))

\* A variant of FirstTenDigits that tries the patterns in the reverse order:
\* the bare run first.
RECURSIVE FirstTenDigits_BareFirst(_)
FirstTenDigits_BareFirst(captures) ==
  IF captures = <<>> THEN None
  ELSE LET result == extract_with_regex(captures[Len(captures)])
       IN  IF ~IsNone(result) /\ Get(result) # <<>> /\ Len(Get(result)) = 10 THEN result
           ELSE FirstTenDigits_BareFirst(SubSeq(captures, 1, Len(captures) - 1))

\* if result and len(result) == 10
RECURSIVE FirstTenDigits(_)
FirstTenDigits(captures) ==
  IF captures = <<>> THEN None
  ELSE LET result == extract_with_regex(Head(captures))
       IN  IF ~IsNone(result) /\ Get(result) # <<>> /\ Len(Get(result)) = 10 THEN result
           ELSE FirstTenDigits(Tail(captures))

extract_purchase_order(full_text) == FirstTenDigits(PurchaseOrderCaptures(full_text))

extract_due_date(full_text) == FirstResult(DueDateCaptures(full_text))

MarsInformationServices == <<"M", "a", "r", "s", " ", "I", "n", "f", "o", "r", "m", "a", "t", "i", "o", "n", " ", "S", "e", "r", "v", "i", "c", "e", "s">>
MarsPetcareFoodFrance == <<"M", "a", "r", "s", " ", "P", "e", "t", "c", "a", "r", "e", " ", "F", "o", "o", "d", " ", "F", "r", "a", "n", "c", "e">>
Mars == <<"M", "a", "r", "s">>

extract_recipient(full_text) ==
  IF Contains(full_text, MarsInformationServices) THEN "Mars Information Services"
  ELSE IF Contains(full_text, MarsPetcareFoodFrance) THEN "Mars Petcare Food France SAS"
  ELSE IF Contains(full_text, Mars) THEN "Mars (a preciser)"
  ELSE "Non determine"

extract_batch_id(full_text) ==
  LET k == SearchIds(full_text)
  IN  IF k = 0 THEN None ELSE extract_with_regex(Some(SubSeq(full_text, k, k + 3)))

\* A variant of extract_assignment_id that reads the last occurrence of the
\* shape instead of the leftmost.
extract_assignment_id_Last(full_text) ==
  LET hits == {k \in 1..Len(full_text) : IsIdsAt(full_text, k)}
  IN  IF hits = {} THEN None
      ELSE LET k == CHOOSE i \in hits : \A j \in hits : j <= i
           IN  extract_with_regex(Some(SubSeq(full_text, k + 5, k + 9)))

extract_assignment_id(full_text) ==
  LET k == SearchIds(full_text)
  IN  IF k = 0 THEN None ELSE extract_with_regex(Some(SubSeq(full_text, k + 5, k + 9)))

extract_total_net(full_text) == FirstAmount(TotalNetCaptures(full_text))
extract_total_vat(full_text) == FirstAmount(TotalVatCaptures(full_text))
extract_total_gross(full_text) == FirstAmount(TotalGrossCaptures(full_text))

\* ------------------------------------------------------ extract_invoice_data
\* not text.strip()
IsBlank(text) == Strip(FullText(text)) = <<>>

\* the dict built at lines 79-96, 'rubriques_analyse' still None
BuildData(name, text) ==
  LET full_text == FullText(text)
  IN  [nom_fichier |-> name,
       numero_facture |-> extract_invoice_number(full_text),
       date_facture |-> extract_invoice_date(full_text),
       numero_commande |-> extract_purchase_order(full_text),
       date_echeance |-> extract_due_date(full_text),
       destinataire |-> Some(extract_recipient(full_text)),
       emetteur |-> "Select T.T",
       batch_id |-> extract_batch_id(full_text),
       assignment_id |-> extract_assignment_id(full_text),
       total_net |-> extract_total_net(full_text),
       total_tva |-> extract_total_vat(full_text),
       total_brut |-> extract_total_gross(full_text),
       taux_tva |-> "20%",
       devise |-> "EUR",
       lignes_detail |-> extract_line_items(text),
       rubriques_analyse |-> None]

\* A variant of SetRubriques without the else branch: the field stays None
\* when there is no line item.
SetRubriques_NoElse(data) ==
  IF data.lignes_detail # <<>>
    THEN [data EXCEPT !.rubriques_analyse = Some(analyze_rubriques(data.lignes_detail))]
  ELSE data

\* lines 98-103. A list-valued field that may be None is Some(list) when set.
SetRubriques(data) ==
  IF data.lignes_detail # <<>>
    THEN [data EXCEPT !.rubriques_analyse = Some(analyze_rubriques(data.lignes_detail))]
  ELSE [data EXCEPT !.rubriques_analyse = Some(<<>>)]

\* the dict returned by the except branch, lines 109-126
ErrorData(name, e) ==
  [nom_fichier |-> name,
   erreur |-> e,
   numero_facture |-> None,
   date_facture |-> None,
   numero_commande |-> None,
   date_echeance |-> None,
   destinataire |-> None,
   emetteur |-> "Select T.T",
   batch_id |-> None,
   assignment_id |-> None,
   total_net |-> None,
   total_tva |-> None,
   total_brut |-> None,
   taux_tva |-> "20%",
   devise |-> "EUR",
   lignes_detail |-> <<>>]

\* A document as the text providers see it: what pdfplumber yields (primary)
\* and what PyPDF2 yields (secondary), each Some(text) or None when the
\* extractor raises. The secondary one runs only if the primary text is blank.
\* A variant of ProvideText that also turns to PyPDF2 when pdfplumber raises.
ProvideText_SecondaryOnError(pdf_file) ==
  IF IsNone(pdf_file.primary) \/ IsBlank(Get(pdf_file.primary))
    THEN [called |-> <<"pdfplumber", "PyPDF2">>, text |-> pdf_file.secondary,
          error |-> "PyPDF2 error"]
  ELSE [called |-> <<"pdfplumber">>, text |-> pdf_file.primary, error |-> ""]

\* Lines 65-75: the extractors invoked, in order, and the text the fields are
\* read from (None when the extractor raised, with the exception's message).
\* pdfplumber runs first; "if not text.strip()" then runs PyPDF2, whose text
\* replaces the blank one.
ProvideText(pdf_file) ==
  IF IsNone(pdf_file.primary)
    THEN [called |-> <<"pdfplumber">>, text |-> None, error |-> "pdfplumber error"]
  ELSE IF ~IsBlank(Get(pdf_file.primary))
    THEN [called |-> <<"pdfplumber">>, text |-> pdf_file.primary, error |-> ""]
  ELSE [called |-> <<"pdfplumber", "PyPDF2">>, text |-> pdf_file.secondary,
        error |-> "PyPDF2 error"]

extract_invoice_data(pdf_file) ==
  LET provided == ProvideText(pdf_file)
  IN  IF IsNone(provided.text) THEN ErrorData(pdf_file.name, provided.error)
      ELSE SetRubriques(BuildData(pdf_file.name, Get(provided.text)))

\* ------------------------------------------------------------------ inputs
\* Candidate records of the texts the model explores.
\* the sample line of the template: whitespace in the description, no digit
LineSample ==
  [bid |-> <<"4", "9", "7", "3">>, aid |-> <<"6", "5", "7", "4", "4">>,
   tail |-> <<"T", "e", "m", "p", "o", "r", "a", "r", "y", " ", "e", "m", "p", "l", "o", "y", "e", "e", "s", " ", "-", " ", "E", "x", "p", "e", "n", "s", "e">>,
   date |-> <<"2", "0", "2", "4", "/", "0", "1", "/", "1", "5">>,
   unite |-> <<"H", "R", "S">>, pu |-> <<"1", "0", ",", "0", "0">>, qty |-> <<"5">>,
   net |-> <<"5", "0", ",", "0", "0">>, tva |-> <<"1", "0", ",", "0", "0">>, brut |-> <<"6", "0", ",", "0", "0">>]
\* a description of one word: both patterns match it
LineExpense ==
  [bid |-> <<"4", "9", "7", "3">>, aid |-> <<"6", "5", "7", "4", "4">>,
   tail |-> <<"E", "x", "p", "e", "n", "s", "e">>,
   date |-> <<"2", "0", "2", "4", "/", "0", "1", "/", "1", "5">>,
   unite |-> <<"H", "R", "S">>, pu |-> <<"1", "0", ",", "0", "0">>, qty |-> <<"5">>,
   net |-> <<"5", "0", ",", "0", "0">>, tva |-> <<"1", "0", ",", "0", "0">>, brut |-> <<"6", "0", ",", "0", "0">>]
\* a second record of the same kind, other ids, unit, date and amounts
LineExpense2 ==
  [bid |-> <<"1", "1", "1", "1">>, aid |-> <<"2", "2", "2", "2", "2">>,
   tail |-> <<"E", "x", "p", "e", "n", "s", "e">>,
   date |-> <<"2", "0", "2", "4", "/", "0", "2", "/", "1", "5">>,
   unite |-> <<"D", "A", "Y">>, pu |-> <<"1", "0", ",", "0", "0">>, qty |-> <<"3">>,
   net |-> <<"3", "0", ",", "0", "0">>, tva |-> <<"6", ",", "0", "0">>, brut |-> <<"3", "6", ",", "0", "0">>]
\* a description that is a category code: digits, so only the second pattern
LineCode ==
  [bid |-> <<"4", "9", "7", "3">>, aid |-> <<"6", "5", "7", "4", "4">>,
   tail |-> <<"O", "T", "1", "2", "5">>,
   date |-> <<"2", "0", "2", "4", "/", "0", "1", "/", "1", "5">>,
   unite |-> <<"H", "R", "S">>, pu |-> <<"2", "0", ",", "0", "0">>, qty |-> <<"1">>,
   net |-> <<"2", "0", ",", "0", "0">>, tva |-> <<"4", ",", "0", "0">>, brut |-> <<"2", "4", ",", "0", "0">>]
\* a unit price that float() refuses
LineBadPrice ==
  [bid |-> <<"4", "9", "7", "3">>, aid |-> <<"6", "5", "7", "4", "4">>,
   tail |-> <<"T", "i", "m", "e", "s", "h", "e", "e", "t">>,
   date |-> <<"2", "0", "2", "4", "/", "0", "2", "/", "1", "5">>,
   unite |-> <<"H", "R", "S">>, pu |-> <<"1", ".", "2", ".", "3">>, qty |-> <<"2">>,
   net |-> <<"3", "0", ",", "0", "0">>, tva |-> <<"6", ",", "0", "0">>, brut |-> <<"3", "6", ",", "0", "0">>]
\* a code and a type in one word, and a net amount that float() refuses
LineCodeBadNet ==
  [bid |-> <<"1", "1", "1", "1">>, aid |-> <<"2", "2", "2", "2", "2">>,
   tail |-> <<"A", "B", "0", "0", "1", "T", "i", "m", "e", "s", "h", "e", "e", "t">>,
   date |-> <<"2", "0", "2", "4", "/", "0", "1", "/", "1", "5">>,
   unite |-> <<"D", "A", "Y">>, pu |-> <<"1", "0", ",", "0", "0">>, qty |-> <<"4">>,
   net |-> <<",">>, tva |-> <<"8", ",", "0", "0">>, brut |-> <<"4", "8", ",", "0", "0">>]
\* an empty description after the ids: only the first pattern
LineNoTail ==
  [bid |-> <<"1", "1", "1", "1">>, aid |-> <<"2", "2", "2", "2", "2">>,
   tail |-> <<>>,
   date |-> <<"2", "0", "2", "4", "/", "0", "1", "/", "1", "5">>,
   unite |-> <<"D", "A", "Y">>, pu |-> <<"1", "0", ",", "0", "0">>, qty |-> <<"1">>,
   net |-> <<"1", "0", ",", "0", "0">>, tva |-> <<"2", ",", "0", "0">>, brut |-> <<"1", "2", ",", "0", "0">>]
\* whitespace and a digit in the description: neither pattern
LineNoMatch ==
  [bid |-> <<"4", "9", "7", "3">>, aid |-> <<"6", "5", "7", "4", "4">>,
   tail |-> <<"x", " ", "1">>,
   date |-> <<"2", "0", "2", "4", "/", "0", "1", "/", "1", "5">>,
   unite |-> <<"H", "R", "S">>, pu |-> <<"1", "0", ",", "0", "0">>, qty |-> <<"1">>,
   net |-> <<"1", "0", ",", "0", "0">>, tva |-> <<"2", ",", "0", "0">>, brut |-> <<"1", "2", ",", "0", "0">>]

\* a record both patterns match whose quantity has more digits than int()
\* converts
LineHugeQty ==
  [bid |-> <<"4", "9", "7", "3">>, aid |-> <<"6", "5", "7", "4", "4">>,
   tail |-> <<"E", "x", "p", "e", "n", "s", "e">>,
   date |-> <<"2", "0", "2", "4", "/", "0", "1", "/", "1", "5">>,
   unite |-> <<"H", "R", "S">>, pu |-> <<"1", "0", ",", "0", "0">>,
   qty |-> [k \in 1..(IntMaxStrDigits + 1) |-> "9"],
   net |-> <<"5", "0", ",", "0", "0">>, tva |-> <<"1", "0", ",", "0", "0">>, brut |-> <<"6", "0", ",", "0", "0">>]

LinePool == {LineSample, LineExpense, LineExpense2, LineCode, LineBadPrice,
             LineCodeBadNet, LineNoTail, LineNoMatch}

HeadNone == <<>>
\* "Invoice ID/Number: 4973S0012", "Invoice Total EUR 50,00 10,00 60,00" and
\* "Mars Information Services", one per line
HeadInvoice ==
  <<"I", "n", "v", "o", "i", "c", "e", " ", "I", "D", "/", "N",
    "u", "m", "b", "e", "r", ":", " ", "4", "9", "7", "3", "S",
    "0", "0", "1", "2", "\n", "I", "n", "v", "o", "i", "c", "e",
    " ", "T", "o", "t", "a", "l", " ", "E", "U", "R", " ", "5",
    "0", ",", "0", "0", " ", "1", "0", ",", "0", "0", " ", "6",
    "0", ",", "0", "0", "\n", "M", "a", "r", "s", " ", "I", "n",
    "f", "o", "r", "m", "a", "t", "i", "o", "n", " ", "S", "e",
    "r", "v", "i", "c", "e", "s", "\n">>
HeadCode == <<"C", "o", "d", "e", " ", "r", "u", "b", "r", "i", "q", "u", "e", " ", "O", "T", "1", "2", "5", "\n">>

\* what an extractor yields for a page without text
BlankText == [head |-> <<" ", "\n">>, lines |-> <<>>]

\* ---------------------------------------------------------------- the state
VARIABLES
  pc,              \* where process_files is: "idle", "loop", "returned", "raised";
                   \* then main: "shown", "main_raised", "reported"
  uploaded_files,  \* the batch of the running (or last) call
  idx,             \* the index of the next document of the for loop
  extracted_data,  \* self.extracted_data
  calls,           \* the text extractors invoked for each document processed
  returned_list,   \* the list the last completed call returned, as the caller
                   \* that holds it sees it; None when the caller holds none
  phase,           \* one document's pass: "text", "lines", "done"
  text,            \* the text of the document of the pass
  doc_data,        \* the dict extract_invoice_data builds from the text
  matches,         \* the matches behind lignes: data, pattern and place of each
  lignes,          \* what extract_line_items returned
  rubriques_data,  \* the dict of analyze_rubriques after its first loop
  rubriques,       \* what analyze_rubriques returned
  amount_str,      \* the argument of a call of normalize_amount
  amount,          \* what that call returned
  description,     \* the argument of a call of parse_description
  parsed           \* what that call returned

vars == <<pc, uploaded_files, idx, extracted_data, calls, returned_list,
          phase, text, doc_data, matches, lignes, rubriques_data, rubriques,
          amount_str, amount, description, parsed>>

batchVars == <<pc, uploaded_files, idx, extracted_data, calls, returned_list>>
docVars == <<phase, text, doc_data, matches, lignes, rubriques_data, rubriques>>
amountVars == <<amount_str, amount>>
descrVars == <<description, parsed>>

\* ------------------------------------------------- process_files (the batch)
TextInvoice == [head |-> HeadInvoice, lines |-> <<LineExpense>>]
TextNoLines == [head |-> HeadInvoice, lines |-> <<>>]
TextCodes == [head |-> HeadCode, lines |-> <<LineCode, LineBadPrice>>]

\* The documents of the batches, by what reading them and the two extractors
\* do: read_ok is whether uploaded_file.read() returns (it raises otherwise).
DocPool ==
  {[read_ok |-> TRUE, primary |-> Some(TextInvoice), secondary |-> None],
   [read_ok |-> TRUE, primary |-> Some(TextNoLines), secondary |-> None],
   [read_ok |-> TRUE, primary |-> Some(TextCodes), secondary |-> None],
   [read_ok |-> TRUE, primary |-> None, secondary |-> Some(TextInvoice)],
   [read_ok |-> TRUE, primary |-> Some(BlankText), secondary |-> Some(TextInvoice)],
   [read_ok |-> TRUE, primary |-> Some(BlankText), secondary |-> Some(BlankText)],
   [read_ok |-> TRUE, primary |-> Some(BlankText), secondary |-> None],
   [read_ok |-> FALSE, primary |-> Some(TextInvoice), secondary |-> None]}

\* uploaded_file.name of the i-th document of a batch
FileName(i) == <<"doc", i>>

Batches ==
  UNION {{[i \in 1..n |-> [name |-> FileName(i), read_ok |-> f[i].read_ok,
                           primary |-> f[i].primary, secondary |-> f[i].secondary]] :
           f \in [1..n -> DocPool]} : n \in 0..MaxDocs}

\* A variant of AppendData that drops the record of a document whose
\* extraction faulted.
AppendData_SkipFaulted(data_list, data) ==
  IF "erreur" \in DOMAIN data THEN data_list ELSE Append(data_list, data)

\* self.extracted_data.append(data)
AppendData(data_list, data) == Append(data_list, data)

\* process_files is called: self.extracted_data = []
StartCall(batch) ==
  /\ pc' = "loop"
  /\ uploaded_files' = batch
  /\ idx' = 1
  /\ extracted_data' = <<>>
  /\ calls' = <<>>
  /\ UNCHANGED docVars
  /\ UNCHANGED amountVars
  /\ UNCHANGED descrVars

\* process_files is called by main, on the extractor it has just made: it
\* holds no list of an earlier call
Call(batch) ==
  /\ pc \in {"idle", "returned", "raised", "shown", "main_raised", "reported"}
  /\ StartCall(batch)
  /\ returned_list' = None

\* A variant of ListLeftBehind for which the list is emptied in place
\* (self.extracted_data.clear()).
ListLeftBehind_Cleared(data_list) == <<>>

\* self.extracted_data = [] binds the attribute to a new list: the list it
\* was bound to, which the earlier call returned, keeps its elements
ListLeftBehind(data_list) == data_list

\* process_files is called again on the same extractor by a caller that
\* holds the list the earlier call returned
CallAgain(batch) ==
  /\ pc \in {"idle", "returned", "raised"}
  /\ StartCall(batch)
  /\ returned_list' = IF IsNone(returned_list) THEN None
                      ELSE Some(ListLeftBehind(Get(returned_list)))

\* One iteration of the for loop: read the upload, extract, append. read() is
\* outside every try block: when it raises, the exception leaves process_files.
ProcessDocument ==
  /\ pc = "loop"
  /\ idx <= Len(uploaded_files)
  /\ IF uploaded_files[idx].read_ok
       THEN /\ extracted_data' = AppendData(extracted_data, extract_invoice_data(uploaded_files[idx]))
            /\ calls' = Append(calls, ProvideText(uploaded_files[idx]).called)
            /\ idx' = idx + 1
            /\ pc' = "loop"
       ELSE /\ pc' = "raised"
            /\ UNCHANGED <<extracted_data, calls, idx>>
  /\ UNCHANGED <<uploaded_files, returned_list>>
  /\ UNCHANGED docVars
  /\ UNCHANGED amountVars
  /\ UNCHANGED descrVars

\* return self.extracted_data
Return ==
  /\ pc = "loop"
  /\ idx > Len(uploaded_files)
  /\ pc' = "returned"
  /\ returned_list' = Some(extracted_data)
  /\ UNCHANGED <<uploaded_files, idx, extracted_data, calls>>
  /\ UNCHANGED docVars
  /\ UNCHANGED amountVars
  /\ UNCHANGED descrVars

\* ------------------------------------------ main, after process_files returned
\* rubrique['numero_facture'] = data['numero_facture']
SetInvoiceNumber(rubrique, numero_facture) ==
  [k \in DOMAIN rubrique \cup {"numero_facture"} |->
     IF k = "numero_facture" THEN numero_facture ELSE rubrique[k]]

\* the inner loop of main over data['rubriques_analyse'], entered when the
\* list is there and not empty: every summary of the record gets the key
TagRubriques(data) ==
  IF ~IsNone(data.rubriques_analyse) /\ Get(data.rubriques_analyse) # <<>>
    THEN [data EXCEPT !.rubriques_analyse =
            Some([j \in 1..Len(Get(data.rubriques_analyse)) |->
                    SetInvoiceNumber(Get(data.rubriques_analyse)[j], data.numero_facture)])]
  ELSE data

\* the index of the first record without the key 'rubriques_analyse', where
\* data['rubriques_analyse'] raises KeyError; 0 when every record has it
FirstKeyError(data_list) ==
  IF \A i \in 1..Len(data_list) : "rubriques_analyse" \in DOMAIN data_list[i] THEN 0
  ELSE CHOOSE i \in 1..Len(data_list) :
         /\ "rubriques_analyse" \notin DOMAIN data_list[i]
         /\ \A j \in 1..(i - 1) : "rubriques_analyse" \in DOMAIN data_list[j]

\* main's loop "for data in extracted_data" that gathers all_rubriques: the
\* list is the extractor's own (process_files returns self.extracted_data),
\* so the assignment writes into the records. A KeyError leaves the loop and
\* is caught by main's except; the records before it have been written.
AllRubriques ==
  /\ pc = "returned"
  /\ LET e == FirstKeyError(extracted_data)
         last == IF e = 0 THEN Len(extracted_data) ELSE e - 1
     IN  /\ extracted_data' = [i \in 1..Len(extracted_data) |->
                                 IF i <= last THEN TagRubriques(extracted_data[i])
                                 ELSE extracted_data[i]]
         /\ pc' = IF e = 0 THEN "shown" ELSE "main_raised"
  /\ returned_list' = Some(extracted_data')
  /\ UNCHANGED <<uploaded_files, idx, calls>>
  /\ UNCHANGED docVars
  /\ UNCHANGED amountVars
  /\ UNCHANGED descrVars

\* extractor.create_excel_report(): the sheets are built from copies of the
\* fields it reads (add_summary_sheet included); the records are not written
create_excel_report ==
  /\ pc = "shown"
  /\ pc' = "reported"
  /\ UNCHANGED <<uploaded_files, idx, extracted_data, calls, returned_list>>
  /\ UNCHANGED docVars
  /\ UNCHANGED amountVars
  /\ UNCHANGED descrVars

Init ==
  /\ pc = "idle"
  /\ uploaded_files = <<>>
  /\ idx = 1
  /\ extracted_data = <<>>
  /\ calls = <<>>
  /\ returned_list = None
  /\ phase = "idle"
  /\ text = BlankText
  /\ doc_data = None
  /\ matches = <<>>
  /\ lignes = <<>>
  /\ rubriques_data = <<>>
  /\ rubriques = <<>>
  /\ amount_str = <<>>
  /\ amount = None
  /\ description = <<>>
  /\ parsed = None

Next ==
  \/ \E batch \in Batches : Call(batch)
  \/ ProcessDocument
  \/ Return
  \/ AllRubriques
  \/ create_excel_report

Spec == Init /\ [][Next]_vars

\* ------------------- process_files called again and again on one extractor
\* The documents of these batches: an invoice, a text with two records, and
\* a document for which pdfplumber raises.
CallDocPool ==
  {[read_ok |-> TRUE, primary |-> Some(TextInvoice), secondary |-> None],
   [read_ok |-> TRUE, primary |-> Some(TextCodes), secondary |-> None],
   [read_ok |-> TRUE, primary |-> None, secondary |-> Some(TextInvoice)]}

CallBatches ==
  UNION {{[i \in 1..n |-> [name |-> FileName(i), read_ok |-> f[i].read_ok,
                           primary |-> f[i].primary, secondary |-> f[i].secondary]] :
           f \in [1..n -> CallDocPool]} : n \in 0..MaxDocs}

NextCalls ==
  \/ \E batch \in CallBatches : CallAgain(batch)
  \/ ProcessDocument
  \/ Return

SpecCalls == Init /\ [][NextCalls]_vars

\* ------------------------------- one document: lines 94-102 on a given text
\* the texts of n candidate records
Texts(n) == {[head |-> h, lines |-> ls] : h \in {HeadNone, HeadCode}, ls \in [1..n -> LinePool]}

InitDoc ==
  /\ pc = "idle"
  /\ uploaded_files = <<>>
  /\ idx = 1
  /\ extracted_data = <<>>
  /\ calls = <<>>
  /\ returned_list = None
  /\ phase = "text"
  /\ \E n \in 0..MaxLines : text \in Texts(n)
  /\ doc_data = None
  /\ matches = <<>>
  /\ lignes = <<>>
  /\ rubriques_data = <<>>
  /\ rubriques = <<>>
  /\ amount_str = <<>>
  /\ amount = None
  /\ description = <<>>
  /\ parsed = None

\* 'lignes_detail': self.extract_line_items(text)
ExtractLines ==
  /\ phase = "text"
  /\ lignes' = extract_line_items(text)
  /\ matches' = LineMatches(text)
  /\ phase' = "lines"
  /\ UNCHANGED <<text, doc_data, rubriques_data, rubriques>>
  /\ UNCHANGED batchVars
  /\ UNCHANGED amountVars
  /\ UNCHANGED descrVars

\* data['rubriques_analyse'] = self.analyze_rubriques(data['lignes_detail'])
Analyze ==
  /\ phase = "lines"
  /\ lignes # <<>>
  /\ rubriques_data' = FoldLines(<<>>, lignes)
  /\ rubriques' = analyze_rubriques(lignes)
  /\ phase' = "done"
  /\ UNCHANGED <<text, doc_data, matches, lignes>>
  /\ UNCHANGED batchVars
  /\ UNCHANGED amountVars
  /\ UNCHANGED descrVars

NextDoc == ExtractLines \/ Analyze

SpecDoc == InitDoc /\ [][NextDoc]_vars

\* ------------------- extract_line_items on records of any quantity length
\* The candidate records: matched by both patterns, by the first only, by the
\* second only, and by both with a quantity int() refuses.
QtyLinePool == {LineExpense, LineSample, LineCode, LineHugeQty}

\* Candidate records in one text.
MaxQtyLines == 2

InitLines ==
  /\ pc = "idle"
  /\ uploaded_files = <<>>
  /\ idx = 1
  /\ extracted_data = <<>>
  /\ calls = <<>>
  /\ returned_list = None
  /\ phase = "text"
  /\ \E n \in 0..MaxQtyLines : \E h \in {HeadNone, HeadCode} : \E ls \in [1..n -> QtyLinePool] :
       text = [head |-> h, lines |-> ls]
  /\ doc_data = None
  /\ matches = <<>>
  /\ lignes = <<>>
  /\ rubriques_data = <<>>
  /\ rubriques = <<>>
  /\ amount_str = <<>>
  /\ amount = None
  /\ description = <<>>
  /\ parsed = None

SpecLines == InitLines /\ [][NextDoc]_vars

\* ----------------------------- the scalar fields: lines 79-96 on a given text
\* Header lines of the texts the field extractors are run on.
\* "Invoice ID/Number: 4973S0012"
HeadLineInvoiceId == <<"I", "n", "v", "o", "i", "c", "e", " ", "I", "D", "/", "N", "u", "m", "b", "e", "r", ":", " ", "4", "9", "7", "3", "S", "0", "0", "1", "2", "\n">>
\* "Invoice Total EUR 50,00 10,00 60,00"
HeadLineTotals == <<"I", "n", "v", "o", "i", "c", "e", " ", "T", "o", "t", "a", "l", " ", "E", "U", "R", " ", "5", "0", ",", "0", "0", " ", "1", "0", ",", "0", "0", " ", "6", "0", ",", "0", "0", "\n">>
\* "Invoice Total EUR 50,00"
HeadLineTotalNet == <<"I", "n", "v", "o", "i", "c", "e", " ", "T", "o", "t", "a", "l", " ", "E", "U", "R", " ", "5", "0", ",", "0", "0", "\n">>
\* "Net Amount (excl. VAT) 70,00"
HeadLineNetExcl == <<"N", "e", "t", " ", "A", "m", "o", "u", "n", "t", " ", "(", "e", "x", "c", "l", ".", " ", "V", "A", "T", ")", " ", "7", "0", ",", "0", "0", "\n">>
\* "Montant Net 70,00"
HeadLineMontantNet == <<"M", "o", "n", "t", "a", "n", "t", " ", "N", "e", "t", " ", "7", "0", ",", "0", "0", "\n">>
\* "Purchase Order: 0987654321"
HeadLineOrder == <<"P", "u", "r", "c", "h", "a", "s", "e", " ", "O", "r", "d", "e", "r", ":", " ", "0", "9", "8", "7", "6", "5", "4", "3", "2", "1", "\n">>
\* "Ref 1234567890"
HeadLineRef == <<"R", "e", "f", " ", "1", "2", "3", "4", "5", "6", "7", "8", "9", "0", "\n">>
\* "Bon de commande 123456789"
HeadLineCommande == <<"B", "o", "n", " ", "d", "e", " ", "c", "o", "m", "m", "a", "n", "d", "e", " ", "1", "2", "3", "4", "5", "6", "7", "8", "9", "\n">>
\* "Bon de commande: 5566778899"
HeadLineBon == <<"B", "o", "n", " ", "d", "e", " ", "c", "o", "m", "m", "a", "n", "d", "e", ":", " ", "5", "5", "6", "6", "7", "7", "8", "8", "9", "9", "\n">>
\* "Batch 9999_88888_x"
HeadLineBatch == <<"B", "a", "t", "c", "h", " ", "9", "9", "9", "9", "_", "8", "8", "8", "8", "8", "_", "x", "\n">>
\* "Tel 1234_5678_9"
HeadLineTel == <<"T", "e", "l", " ", "1", "2", "3", "4", "_", "5", "6", "7", "8", "_", "9", "\n">>
\* "Mars Petcare Food France SAS"
HeadLinePetcare == <<"M", "a", "r", "s", " ", "P", "e", "t", "c", "a", "r", "e", " ", "F", "o", "o", "d", " ", "F", "r", "a", "n", "c", "e", " ", "S", "A", "S", "\n">>
\* "Payment Terms: 2024/04/01"
HeadLineTerms == <<"P", "a", "y", "m", "e", "n", "t", " ", "T", "e", "r", "m", "s", ":", " ", "2", "0", "2", "4", "/", "0", "4", "/", "0", "1", "\n">>

HeadPool == {HeadLineInvoiceId,
             HeadLineTotals,
             HeadLineTotalNet,
             HeadLineNetExcl,
             HeadLineMontantNet,
             HeadLineOrder,
             HeadLineRef,
             HeadLineCommande,
             HeadLineBon,
             HeadLineBatch,
             HeadLineTel,
             HeadLinePetcare,
             HeadLineTerms}

\* Header lines in one text.
MaxHeadLines == 2

RECURSIVE Concat(_)
Concat(ss) == IF ss = <<>> THEN <<>> ELSE Head(ss) \o Concat(Tail(ss))

\* the candidate records of the texts: none, or two with different ids
FieldLines == {<<>>, <<LineExpense2, LineSample>>}

\* the texts: up to MaxHeadLines header lines of HeadPool, then FieldLines
InitFields ==
  /\ pc = "idle"
  /\ uploaded_files = <<>>
  /\ idx = 1
  /\ extracted_data = <<>>
  /\ calls = <<>>
  /\ returned_list = None
  /\ phase = "text"
  /\ \E n \in 0..MaxHeadLines : \E hs \in [1..n -> HeadPool] : \E ls \in FieldLines :
       text = [head |-> Concat(hs), lines |-> ls]
  /\ doc_data = None
  /\ matches = <<>>
  /\ lignes = <<>>
  /\ rubriques_data = <<>>
  /\ rubriques = <<>>
  /\ amount_str = <<>>
  /\ amount = None
  /\ description = <<>>
  /\ parsed = None

\* data = {...}: the dict literal of lines 79-96
ExtractFields ==
  /\ phase = "text"
  /\ doc_data' = BuildData(FileName(1), text)
  /\ phase' = "fields"
  /\ UNCHANGED <<text, matches, lignes, rubriques_data, rubriques>>
  /\ UNCHANGED batchVars
  /\ UNCHANGED amountVars
  /\ UNCHANGED descrVars

NextFields == ExtractFields

SpecFields == InitFields /\ [][NextFields]_vars

\* ------------------------------------- normalize_amount on a given argument
\* The characters of the arguments: digits, the two separators, a letter and
\* a blank.
AmountChars == {"1", "2", ",", ".", "a", " "}
\* The longest argument drawn from AmountChars.
MaxAmountLen == 3

Amount12942 == <<"1", "2", ",", "9", "4", "2", ".", "3", "8">>
Amount1059 == <<"1", "0", "5", "9", ",", "6", "1">>
AmountAbc == <<"a", "b", "c">>

\* the arguments: every string over AmountChars up to MaxAmountLen, and the
\* amounts of the template
AmountInputs ==
  UNION {[1..n -> AmountChars] : n \in 0..MaxAmountLen}
    \cup {Amount12942, Amount1059, AmountAbc}

InitAmount ==
  /\ pc = "idle"
  /\ uploaded_files = <<>>
  /\ idx = 1
  /\ extracted_data = <<>>
  /\ calls = <<>>
  /\ returned_list = None
  /\ phase = "amount"
  /\ text = BlankText
  /\ doc_data = None
  /\ matches = <<>>
  /\ lignes = <<>>
  /\ rubriques_data = <<>>
  /\ rubriques = <<>>
  /\ amount_str \in AmountInputs
  /\ amount = None
  /\ description = <<>>
  /\ parsed = None

\* self.normalize_amount(amount_str)
Normalize ==
  /\ phase = "amount"
  /\ amount' = normalize_amount(amount_str)
  /\ phase' = "normalized"
  /\ UNCHANGED <<text, doc_data, matches, lignes, rubriques_data, rubriques, amount_str>>
  /\ UNCHANGED batchVars
  /\ UNCHANGED descrVars

NextAmount == Normalize

SpecAmount == InitAmount /\ [][NextAmount]_vars

\* ------------------------------------ parse_description (a pure function)
\* The descriptions: the two ids, then up to MaxWords words joined by '_';
\* and two descriptions with fewer than three parts.
DescrIds == <<"4", "9", "7", "3", "_", "6", "5", "7", "4", "4">>
WordPool == {<<"E", "x", "p", "e", "n", "s", "e">>,
             <<"e", "x", "p", "e", "n", "s", "e">>,
             <<"E", "X", "P", "E", "N", "S", "E">>,
             <<"T", "i", "m", "e", "s", "h", "e", "e", "t">>,
             <<"t", "i", "m", "e", "s", "h", "e", "e", "t">>,
             <<"T", "i", "m", "e", "S", "h", "e", "e", "t">>,
             <<"R", "e", "p", "o", "r", "t">>}

\* Words after the ids of one description.
MaxWords == 2

RECURSIVE JoinWords(_)
JoinWords(ws) == IF ws = <<>> THEN <<>> ELSE <<"_">> \o Head(ws) \o JoinWords(Tail(ws))

Descriptions(n) == {DescrIds \o JoinWords(ws) : ws \in [1..n -> WordPool]}

InitDescr ==
  /\ pc = "idle"
  /\ uploaded_files = <<>>
  /\ idx = 1
  /\ extracted_data = <<>>
  /\ calls = <<>>
  /\ returned_list = None
  /\ phase = "description"
  /\ text = BlankText
  /\ doc_data = None
  /\ matches = <<>>
  /\ lignes = <<>>
  /\ rubriques_data = <<>>
  /\ rubriques = <<>>
  /\ amount_str = <<>>
  /\ amount = None
  /\ \/ \E n \in 0..MaxWords : description \in Descriptions(n)
     \/ description = SubSeq(DescrIds, 1, 4)
     \/ description = DescrIds \o <<"_">>
  /\ parsed = None

\* self.parse_description(description)
Parse ==
  /\ phase = "description"
  /\ parsed' = parse_description(description)
  /\ phase' = "parsed"
  /\ UNCHANGED <<text, doc_data, matches, lignes, rubriques_data, rubriques, description>>
  /\ UNCHANGED batchVars
  /\ UNCHANGED amountVars

NextDescr == Parse

SpecDescr == InitDescr /\ [][NextDescr]_vars

\* ===================================================================== claims
\* Helpers of the statements below.
IsFaulted(data) == "erreur" \in DOMAIN data
\* whether processing the document faults: reading it, or the extractor used
DocFaults(doc) ==
  \/ ~doc.read_ok
  \/ IsNone(doc.primary)
  \/ IsBlank(Get(doc.primary)) /\ IsNone(doc.secondary)

\* the (category code, service type) pair of a line item or of a summary
PairOf(r) == <<r.code_rubrique, r.type_prestation>>
\* the indices of the line items of the group of summary r
GroupOf(r) == {i \in 1..Len(lignes) : PairOf(lignes[i]) = PairOf(r)}
\* the index of the first line item of the group of summary r
FirstOf(r) == CHOOSE i \in GroupOf(r) : \A j \in GroupOf(r) : i <= j

RECURSIVE SumOver(_, _)
SumOver(S, f) ==
  IF S = {} THEN 0
  ELSE LET x == CHOOSE y \in S : TRUE IN f[x] + SumOver(S \ {x}, f)

C2_FaultNeverAbortsBatch ==
  /\ pc # "raised"
  /\ pc = "returned" =>
       \A i \in 1..Len(extracted_data) :
         IsFaulted(extracted_data[i]) <=> DocFaults(uploaded_files[i])

\* C3: the record of a document whose extraction faulted has every scalar
\* field null but the name and the three constants, and has both sequences,
\* lignes_detail and rubriques_analyse, present and empty.
C3_FaultRecordShape ==
  \A i \in 1..Len(extracted_data) :
    LET data == extracted_data[i]
    IN  IsFaulted(data) =>
          /\ \A f \in {"numero_facture", "date_facture", "numero_commande", "date_echeance",
                       "destinataire", "batch_id", "assignment_id",
                       "total_net", "total_tva", "total_brut"} : IsNone(data[f])
          /\ data.emetteur = "Select T.T" /\ data.taux_tva = "20%" /\ data.devise = "EUR"
          /\ data.lignes_detail = <<>>
          /\ "rubriques_analyse" \in DOMAIN data
          /\ data.rubriques_analyse = Some(<<>>)

\* C4: the record of a document processed without fault never has a null
\* rubriques_analyse, and when no line item matched, its lignes_detail and its
\* rubriques_analyse are both the empty list.
C4_RubriquesNeverNull ==
  \A i \in 1..Len(extracted_data) :
    LET data == extracted_data[i]
    IN  ~IsFaulted(data) =>
          /\ "rubriques_analyse" \in DOMAIN data
          /\ ~IsNone(data.rubriques_analyse)
          /\ data.lignes_detail = <<>> => data.rubriques_analyse = Some(<<>>)

\* a record without fault and without line item
C4_Witness ==
  \E i \in 1..Len(extracted_data) :
    /\ ~IsFaulted(extracted_data[i])
    /\ extracted_data[i].lignes_detail = <<>>
    /\ extracted_data[i].rubriques_analyse = Some(<<>>)

\* C5: analyze_rubriques returns exactly one summary per distinct (category
\* code, service type) pair of its line items, and no other summary; two line
\* items share a key of the grouping dict exactly when they share the pair.
C5_OneSummaryPerPair ==
  phase = "done" =>
    LET pairs == {PairOf(lignes[i]) : i \in 1..Len(lignes)}
    IN  /\ Len(rubriques) = Cardinality(pairs)
        /\ \A p \in pairs :
             Cardinality({k \in 1..Len(rubriques) : PairOf(rubriques[k]) = p}) = 1
        /\ \A k \in 1..Len(rubriques) : PairOf(rubriques[k]) \in pairs
        /\ \A i, j \in 1..Len(lignes) :
             (\E k \in 1..Len(rubriques_data) :
                /\ rubriques_data[k].key = rubrique_key(lignes[i])
                /\ rubriques_data[k].key = rubrique_key(lignes[j]))
               <=> PairOf(lignes[i]) = PairOf(lignes[j])

\* two line items of code OT125 and type Expense in one summary, beside another
C5_Witness ==
  /\ phase = "done"
  /\ Len(rubriques) >= 2
  /\ \E k \in 1..Len(rubriques) :
       /\ rubriques[k].code_rubrique = Some(<<"O", "T", "1", "2", "5">>)
       /\ rubriques[k].type_prestation = Expense
       /\ rubriques[k].nb_lignes = 2

\* C6: each summary counts the line items of its group, sums their quantities
\* and sums their net, VAT and gross amounts with a null amount counted as
\* zero; the counts add up to the number of line items and are at least one.
C6_SummaryTotals ==
  phase = "done" =>
    /\ \A k \in 1..Len(rubriques) :
         LET r == rubriques[k]
             g == GroupOf(r)
         IN  /\ r.nb_lignes = Cardinality(g)
             /\ r.nb_lignes >= 1
             /\ r.total_quantite = SumOver(g, [i \in g |-> lignes[i].quantite])
             /\ r.total_net = SumOver(g, [i \in g |-> OrZero(lignes[i].montant_net)])
             /\ r.total_tva = SumOver(g, [i \in g |-> OrZero(lignes[i].montant_tva)])
             /\ r.total_brut = SumOver(g, [i \in g |-> OrZero(lignes[i].montant_brut)])
    /\ SumOver(1..Len(rubriques), [k \in 1..Len(rubriques) |-> rubriques[k].nb_lignes])
         = Len(lignes)

\* a summary of several line items, one with a null net amount and one with a
\* net amount
C6_Witness ==
  /\ phase = "done"
  /\ \E k \in 1..Len(rubriques) :
       /\ rubriques[k].nb_lignes >= 2
       /\ rubriques[k].total_net > 0
       /\ \E i \in GroupOf(rubriques[k]) : IsNone(lignes[i].montant_net)

\* C7: the summaries come in the order in which the first line item of each
\* group occurs in the input, and the batch id and the assignment id of a
\* summary are those of that first line item.
C7_FirstSeenOrder ==
  phase = "done" =>
    /\ \A k, m \in 1..Len(rubriques) :
         k < m => FirstOf(rubriques[k]) < FirstOf(rubriques[m])
    /\ \A k \in 1..Len(rubriques) :
         /\ rubriques[k].batch_id = lignes[FirstOf(rubriques[k])].batch_id
         /\ rubriques[k].assignment_id = lignes[FirstOf(rubriques[k])].assignment_id

\* Expense before Autre (not the order of the keys), and a first summary
\* whose line items carry different batch ids
C7_Witness ==
  /\ phase = "done"
  /\ Len(rubriques) >= 2
  /\ rubriques[1].type_prestation = Expense
  /\ rubriques[2].type_prestation = Autre
  /\ rubriques[1].code_rubrique = rubriques[2].code_rubrique
  /\ \E i \in GroupOf(rubriques[1]) : lignes[i].batch_id # rubriques[1].batch_id

\* C8: a line item without category code is grouped under the sentinel key
\* SANS_CODE (followed by '_' and its service type), and two such line items
\* of different service types are in different groups.
C8_AbsentCodeUnderSentinel ==
  phase = "done" =>
    /\ \A k \in 1..Len(rubriques_data) :
         IsNone(rubriques_data[k].val.code_rubrique) =>
           rubriques_data[k].key
             = SANS_CODE \o <<"_">> \o rubriques_data[k].val.type_prestation
    /\ \A i, j \in 1..Len(lignes) :
         /\ IsNone(lignes[i].code_rubrique) /\ IsNone(lignes[j].code_rubrique)
         /\ lignes[i].type_prestation # lignes[j].type_prestation
         => rubrique_key(lignes[i]) # rubrique_key(lignes[j])

\* C9: no line item of the output has a null unit price, quantity or amount: a
\* matched record with a field that fails numeric conversion is discarded.
C9_NoPartialLineItem ==
  phase \in {"lines", "done"} =>
    \A i \in 1..Len(lignes) :
      /\ ~IsNone(lignes[i].prix_unitaire)
      /\ ~IsNone(lignes[i].montant_net)
      /\ ~IsNone(lignes[i].montant_tva)
      /\ ~IsNone(lignes[i].montant_brut)
      /\ lignes[i].quantite >= 0

\* C10: the line items come in document order: of two line items, the one
\* whose record starts first in the text comes first, whichever pattern
\* matched each of them.
C10_DocumentOrder ==
  phase \in {"lines", "done"} =>
    /\ \A k \in 1..Len(lignes) : lignes[k] = matches[k].data
    /\ \A i, j \in 1..Len(matches) :
         matches[i].start < matches[j].start => i < j

\* C11: the line item of a structurally matched record has for batch id and
\* assignment id the first and second '_'-separated segments of its
\* description (the four-digit and five-digit prefix, never null), for service
\* type the classification of what follows them, for quantity the parsed
\* non-negative integer, and for net, VAT and gross the normalized first,
\* second and third amounts after the quantity; a record whose description
\* has whitespace and no digit after the id prefix yields exactly one line item.
C11_LineItemFields ==
  phase \in {"lines", "done"} =>
    /\ \A k \in 1..Len(matches) :
         LET line == text.lines[matches[k].start]
             item == lignes[k]
         IN  /\ item.batch_id = Some(line.bid)
             /\ item.assignment_id = Some(line.aid)
             /\ Len(Get(item.batch_id)) = 4 /\ Len(Get(item.assignment_id)) = 5
             /\ item.batch_id = Some(FirstPart(item.description, "_"))
             /\ item.assignment_id = Some(FirstPart(AfterFirst(item.description, "_"), "_"))
             /\ item.type_prestation =
                  (IF Contains(line.tail, Expense) THEN Expense
                   ELSE IF Contains(line.tail, Timesheet) THEN Timesheet
                   ELSE Autre)
             /\ item.quantite = DigitsValue(line.qty) /\ item.quantite >= 0
             /\ item.montant_net = normalize_amount(line.net)
             /\ item.montant_tva = normalize_amount(line.tva)
             /\ item.montant_brut = normalize_amount(line.brut)
    /\ \A i \in 1..Len(text.lines) :
         (/\ \E j \in 1..Len(text.lines[i].tail) : text.lines[i].tail[j] \in Whitespace
          /\ \A j \in 1..Len(text.lines[i].tail) : text.lines[i].tail[j] \notin Digits)
         => Cardinality({k \in 1..Len(matches) : matches[k].start = i}) = 1

\* the sample line, second record of its text, yields one line item: batch id
\* 4973, assignment id 65744, Expense, quantity 5, net 50.00, VAT 10.00,
\* gross 60.00
C11_Witness ==
  /\ phase = "lines"
  /\ Len(text.lines) >= 2
  /\ text.lines[2] = LineSample
  /\ Cardinality({k \in 1..Len(matches) : matches[k].start = 2}) = 1
  /\ \E k \in 1..Len(lignes) :
       /\ matches[k].start = 2
       /\ lignes[k].batch_id = Some(<<"4", "9", "7", "3">>)
       /\ lignes[k].assignment_id = Some(<<"6", "5", "7", "4", "4">>)
       /\ lignes[k].type_prestation = Expense
       /\ lignes[k].quantite = 5
       /\ lignes[k].montant_net = Some(5000)
       /\ lignes[k].montant_tva = Some(1000)
       /\ lignes[k].montant_brut = Some(6000)

\* C12: normalize_amount returns null or a number for every argument (it never
\* raises): null for an empty argument and for one without digit; with both
\* ',' and '.' the commas are dropped, with ',' alone it is the decimal point,
\* and every character other than a digit or a period is dropped before the
\* conversion; "12,942.38" gives 12942.38, "1059,61" gives 1059.61, "" and
\* "abc" give null.
C12_NormalizeAmount ==
  phase = "normalized" =>
    /\ IsNone(amount) \/ (Len(amount) = 1 /\ Get(amount) \in Nat)
    /\ amount_str = <<>> => IsNone(amount)
    /\ (\A k \in 1..Len(amount_str) : amount_str[k] \notin Digits) => IsNone(amount)
    /\ HasChar(amount_str, ",") /\ HasChar(amount_str, ".")
         => amount = normalize_amount(Replace(amount_str, ",", <<>>))
    /\ HasChar(amount_str, ",") /\ ~HasChar(amount_str, ".")
         => amount = normalize_amount(Replace(amount_str, ",", <<".">>))
    /\ amount = normalize_amount(Keep(amount_str, Digits \cup {".", ","}))
    /\ amount_str = Amount12942 => amount = Some(1294238)
    /\ amount_str = Amount1059 => amount = Some(105961)
    /\ amount_str = AmountAbc => IsNone(amount)

\* "12,942.38" has been normalized to 12942.38
C12_Witness ==
  /\ phase = "normalized"
  /\ amount_str = Amount12942
  /\ amount = Some(1294238)

\* C13: the category-batch id and the assignment id of a document are both
\* null or both non-null, and when non-null they are the four digits and the
\* five digits of one occurrence of the shape DDDD_DDDDD_ in the text, the
\* leftmost one.
C13_IdsFromOneOccurrence ==
  phase = "fields" =>
    LET s == FullText(text)
        hits == {k \in 1..Len(s) : IsIdsAt(s, k)}
    IN  /\ IsNone(doc_data.batch_id) <=> IsNone(doc_data.assignment_id)
        /\ hits = {} => IsNone(doc_data.batch_id)
        /\ hits # {} =>
             \E k \in hits :
               /\ \A j \in hits : k <= j
               /\ doc_data.batch_id = Some(SubSeq(s, k, k + 3))
               /\ doc_data.assignment_id = Some(SubSeq(s, k + 5, k + 9))

\* a text with three occurrences of the shape and three different id pairs
\* (header, then two candidate records), after a near miss: the ids are those
\* of the header
C13_Witness ==
  /\ phase = "fields"
  /\ text.head = HeadLineTel \o HeadLineBatch
  /\ text.lines = <<LineExpense2, LineSample>>
  /\ doc_data.batch_id = Some(<<"9", "9", "9", "9">>)
  /\ doc_data.assignment_id = Some(<<"8", "8", "8", "8", "8">>)

\* the text the fields of a document processed without fault are read from
TextUsed(doc) ==
  IF IsBlank(Get(doc.primary)) THEN Get(doc.secondary) ELSE Get(doc.primary)

RECURSIVE FirstMatched(_)
FirstMatched(captures) ==
  IF captures = <<>> THEN None
  ELSE IF ~IsNone(Head(captures)) THEN Head(captures)
  ELSE FirstMatched(Tail(captures))

\* the amount of the first capture of a list that normalizes to a number, None
\* when there is none
RECURSIVE FirstUsableAmount(_)
FirstUsableAmount(captures) ==
  IF captures = <<>> THEN None
  ELSE IF ~IsNone(Head(captures)) /\ ~IsNone(normalize_amount(Get(Head(captures))))
    THEN normalize_amount(Get(Head(captures)))
  ELSE FirstUsableAmount(Tail(captures))

\* C15: each scalar field is the value of the first pattern of its list that
\* yields a non-empty value, and is null only if no pattern of the list
\* matches the text; for the three totals, a pattern that matches without
\* yielding a usable amount does not stop the later patterns from being tried.
C15_FirstUsableCandidate ==
  phase = "fields" =>
    LET s == FullText(text)
    IN  /\ doc_data.numero_facture = FirstMatched(InvoiceNumberCaptures(s))
        /\ doc_data.date_facture = FirstMatched(InvoiceDateCaptures(s))
        /\ doc_data.numero_commande = FirstMatched(PurchaseOrderCaptures(s))
        /\ doc_data.date_echeance = FirstMatched(DueDateCaptures(s))
        /\ doc_data.total_net = FirstUsableAmount(TotalNetCaptures(s))
        /\ doc_data.total_tva = FirstUsableAmount(TotalVatCaptures(s))
        /\ doc_data.total_brut = FirstUsableAmount(TotalGrossCaptures(s))
        /\ IsNone(doc_data.total_net) => FirstMatched(TotalNetCaptures(s)) = None
        /\ IsNone(doc_data.total_tva) => FirstMatched(TotalVatCaptures(s)) = None
        /\ IsNone(doc_data.total_brut) => FirstMatched(TotalGrossCaptures(s)) = None

\* the positions of a text where ten digits stand
TenDigitsAt(s) ==
  {c \in 1..Len(s) : c + 9 <= Len(s) /\ \A j \in 0..9 : s[c + j] \in Digits}

\* the positions where ten digits stand as the first digits after a label
AnchoredAt(s, label) ==
  {c \in TenDigitsAt(s) :
     \E k \in LabelHits(s, label) :
       /\ k + Len(label) <= c
       /\ \A j \in (k + Len(label))..(c - 1) : s[j] \notin Digits}

\* C16: extract_purchase_order returns null or a string of exactly 10 digits:
\* the ten digits anchored by 'Purchase Order', else those anchored by 'Bon de
\* commande', are preferred over a bare run of ten digits wherever it stands;
\* the first bare run of ten digits is returned when there is no anchored
\* one; a text without ten digits in a row yields null.
C16_PurchaseOrderTenDigits ==
  phase = "fields" =>
    LET s == FullText(text)
        po == doc_data.numero_commande
        at(c) == Some(SubSeq(s, c, c + 9))
        first == AnchoredAt(s, PurchaseOrder)
        second == AnchoredAt(s, BonDeCommande)
    IN  /\ IsNone(po) \/ (Len(Get(po)) = 10 /\ \A j \in 1..10 : Get(po)[j] \in Digits)
        /\ first # {} => po = at(MinOf(first))
        /\ first = {} /\ second # {} => po = at(MinOf(second))
        /\ first = {} /\ second = {} /\ TenDigitsAt(s) # {} => po = at(MinOf(TenDigitsAt(s)))
        /\ TenDigitsAt(s) = {} => IsNone(po)

\* a bare run of ten digits stands before the ten digits anchored by the
\* label: the anchored ones are returned
C16_Witness ==
  /\ phase = "fields"
  /\ text.head = HeadLineRef \o HeadLineOrder
  /\ doc_data.numero_commande = Some(<<"0", "9", "8", "7", "6", "5", "4", "3", "2", "1">>)

\* str.lower() of a string
Lowered(s) == [j \in 1..Len(s) |-> ToLower(s[j])]

\* C17: the service type of a description of at least three parts is decided
\* without regard to letter case from what follows the two ids: Expense if
\* that contains 'expense' in any letter case, otherwise Timesheet if it
\* contains 'timesheet' in any letter case, otherwise Autre.
C17_TypeCaseInsensitive ==
  phase = "parsed" /\ PartsCount(description, "_") >= 3 =>
    LET type_part == Lowered(AfterFirst(AfterFirst(description, "_"), "_"))
    IN  parsed.type_prestation =
          IF Contains(type_part, Lowered(Expense)) THEN Expense
          ELSE IF Contains(type_part, Lowered(Timesheet)) THEN Timesheet
          ELSE Autre

\* C18: once process_files has returned, nothing main does afterwards (the
\* display of the results, create_excel_report with add_summary_sheet)
\* changes a record, a line item or a summary: extracted_data, with every
\* field and the key set of every record and nested summary, stays as
\* returned until process_files is called again.
C18_RecordsImmutableAfterReturn ==
  [][(pc \in {"returned", "shown", "main_raised", "reported"} /\ pc' # "loop")
       => (extracted_data' = extracted_data)]_vars

\* C19: for every document processed, pdfplumber is invoked first and PyPDF2
\* is invoked if and only if pdfplumber completed and its text is blank
\* (whitespace or nothing), never when that text is not blank; and the record
\* of a document processed without fault is the one built from the text of
\* the extractor invoked last, whichever it is.
C19_SecondaryIffPrimaryBlank ==
  pc \in {"loop", "returned"} =>
    /\ Len(calls) = Len(extracted_data)
    /\ \A i \in 1..Len(calls) :
         LET doc == uploaded_files[i]
             second == \E j \in 1..Len(calls[i]) : calls[i][j] = "PyPDF2"
             last == IF calls[i][Len(calls[i])] = "PyPDF2" THEN doc.secondary ELSE doc.primary
         IN  /\ calls[i][1] = "pdfplumber"
             /\ second <=> (~IsNone(doc.primary) /\ IsBlank(Get(doc.primary)))
             /\ ~IsFaulted(extracted_data[i]) =>
                  /\ ~IsNone(last)
                  /\ extracted_data[i] = SetRubriques(BuildData(doc.name, Get(last)))
             /\ IsFaulted(extracted_data[i]) <=> IsNone(last)

\* a document whose pdfplumber text is blank and whose PyPDF2 text is an
\* invoice: both were invoked and the fields are those of the PyPDF2 text
C19_Witness ==
  /\ pc = "returned"
  /\ Len(extracted_data) = 2
  /\ uploaded_files[1].primary = Some(BlankText)
  /\ uploaded_files[1].secondary = Some(TextInvoice)
  /\ uploaded_files[2].primary = Some(TextInvoice)
  /\ calls = << <<"pdfplumber", "PyPDF2">>, <<"pdfplumber">> >>
  /\ ~IsNone(extracted_data[1].numero_facture)
  /\ [extracted_data[1] EXCEPT !.nom_fichier = FileName(2)] = extracted_data[2]

\* the places of a string where a code (two letters, three digits) stands
CodesAt(s) == {k \in 1..Len(s) : IsCodeAt(s, k)}

\* C20: the category code of a line item is the first code (2 letters and 3
\* digits) of its own description; only when the description holds none, the
\* first code of the full text of the document; and null only when the full
\* text holds none. So all the line items of one document whose descriptions
\* hold no code have the same category code.
C20_CodeFromDescriptionThenText ==
  phase \in {"lines", "done"} =>
    LET s == FullText(text)
        NoOwn == {i \in 1..Len(lignes) : CodesAt(lignes[i].description) = {}}
    IN  /\ \A i \in 1..Len(lignes) :
             LET d == lignes[i].description
                 code == lignes[i].code_rubrique
             IN  /\ CodesAt(d) # {} =>
                      code = Some(SubSeq(d, MinOf(CodesAt(d)), MinOf(CodesAt(d)) + 4))
                 /\ CodesAt(d) = {} /\ CodesAt(s) # {} =>
                      code = Some(SubSeq(s, MinOf(CodesAt(s)), MinOf(CodesAt(s)) + 4))
                 /\ IsNone(code) <=> CodesAt(s) = {}
        /\ \A i, j \in NoOwn : lignes[i].code_rubrique = lignes[j].code_rubrique

\* a text without header whose first record has no code in its description
\* and whose second record has OT125 in its own: the line item of the first
\* record gets OT125 from the full text
C20_Witness ==
  /\ phase = "lines"
  /\ text.head = HeadNone
  /\ Len(text.lines) >= 2
  /\ text.lines[1] = LineSample
  /\ text.lines[2] = LineCode
  /\ \E k \in 1..Len(lignes) :
       /\ matches[k].start = 1
       /\ CodesAt(lignes[k].description) = {}
       /\ lignes[k].code_rubrique = Some(<<"O", "T", "1", "2", "5">>)

\* the candidate records of the text that line_patterns[p] matches
MatchedBy(p) == {i \in 1..Len(text.lines) : PatternMatches(p, text.lines[i])}

\* those of them whose quantity int() converts
ConvertedBy(p) == {i \in MatchedBy(p) : Len(text.lines[i].qty) <= IntMaxStrDigits}

\* C21 as stated: extract_line_items returns as many line items as the first
\* pattern has matches plus the second has matches, every match being kept.
C21_EveryMatchKept ==
  phase \in {"lines", "done"} =>
    Len(lignes) = Cardinality(MatchedBy(1)) + Cardinality(MatchedBy(2))

\* C21, corrected: extract_line_items keeps every match of each of the two
\* patterns whose quantity int() converts, and drops the others: it returns
\* as many line items as the first pattern has such matches plus the second
\* has, without de-duplication; a record matched by both patterns is in the
\* output twice, and analyze_rubriques counts it twice.
C21_EveryConvertedMatchKept ==
  phase \in {"lines", "done"} =>
    /\ Len(lignes) = Cardinality(ConvertedBy(1)) + Cardinality(ConvertedBy(2))
    /\ \A i \in 1..Len(text.lines) :
         Cardinality({k \in 1..Len(matches) : matches[k].start = i})
           = Cardinality({p \in {1, 2} : i \in ConvertedBy(p)})
    /\ \A i \in ConvertedBy(1) \cap ConvertedBy(2) :
         \E k1, k2 \in 1..Len(lignes) :
           /\ k1 < k2
           /\ matches[k1].start = i /\ matches[k2].start = i
           /\ matches[k1].pattern = 1 /\ matches[k2].pattern = 2
           /\ lignes[k1] = lignes[k2]
    /\ phase = "done" =>
         SumOver(1..Len(rubriques), [k \in 1..Len(rubriques) |-> rubriques[k].nb_lignes])
           = Len(lignes)

\* a text of two records that both patterns match, the second with a quantity
\* int() refuses: the first record gives two equal line items, the second
\* none, and the one summary counts two lines
C21_Witness ==
  /\ phase = "done"
  /\ text.lines = <<LineExpense, LineHugeQty>>
  /\ Len(lignes) = 2
  /\ lignes[1] = lignes[2]
  /\ matches[1].start = 1 /\ matches[2].start = 1
  /\ Len(rubriques) = 1
  /\ rubriques[1].nb_lignes = 2
  /\ rubriques[1].total_net = 10000

\* C22: over any sequence of calls of process_files on one extractor, the
\* list a call builds and returns holds the records of the documents of that
\* call's batch and no other: while the loop runs, one record for each
\* document before the next one to process, in order; and no step of a later
\* call (its start, the processing of a document) changes the list an
\* earlier call returned.
C22_CallsIndependent ==
  /\ [](pc \in {"loop", "returned"} =>
          /\ Len(extracted_data) = idx - 1
          /\ pc = "returned" => Len(extracted_data) = Len(uploaded_files)
          /\ \A i \in 1..Len(extracted_data) :
               extracted_data[i] = extract_invoice_data(uploaded_files[i]))
  /\ [][pc' = "loop" => returned_list' = returned_list]_vars
  /\ [][(pc = "loop" /\ pc' = "returned") => returned_list' = Some(extracted_data)]_vars

\* a second call, on a batch of one document, has returned after a first
\* call on a batch of two others: its list holds the one record of its batch
\* and differs from the list of the first call
C22_Witness ==
  /\ pc = "loop"
  /\ idx = 2
  /\ Len(uploaded_files) = 1
  /\ uploaded_files[1].primary = Some(TextCodes)
  /\ ~IsNone(returned_list)
  /\ Len(Get(returned_list)) = 2
  /\ Len(extracted_data) = 1
  /\ extracted_data[1] # Get(returned_list)[1]
  /\ ~IsFaulted(Get(returned_list)[1])
  /\ IsFaulted(Get(returned_list)[2])

====
